---- MODULE Spec2Model ----
(***************************************************************************)
(* Blur analysis pipeline of edu-ai/classify: the scoring engine of the    *)
(* blur-detection service (blur_detector.py), the synchronous endpoint     *)
(* (main.py), the queued worker task (blur_tasks.py, worker.py) and the    *)
(* photo record update of the photos service (photos-service/main.py).     *)
(*                                                                         *)
(* Scores are fixed-point numbers: the integer s stands for s / Scale.     *)
(* Nullable values are sequences: <<>> is null/None, <<v>> is the value v. *)
(***************************************************************************)
EXTENDS Integers, Sequences, FiniteSets, TLC

\* ------------------------------------------------------------------ bounds
MaxJobs == 3        \* tasks enqueued in one behaviour of the queue pipeline
MaxBatch == 3       \* photo ids in one batch request
MaxRaceRuns == 2    \* analyses, queued and synchronous, in one behaviour that has both
MaxGatewayRequests == 2   \* batch requests the gateway serves in one behaviour
MaxFaces == 3       \* boxes the face detector reports for one image
MaxPatches == 3     \* update requests in one behaviour of the photos service alone
MaxLiveJobs == 2    \* tasks enqueued in one behaviour of the scheduled queue pipeline

\* ------------------------------------------------------- program constants
DecimalUnits == 10000            \* blur_score column DECIMAL(5, 4)
Scale == 10 * DecimalUnits       \* resolution of a float score in the model
LaplacianK == 40                 \* 1.0 / (1.0 + fm / 40.0)
HybridLaplacianK == 100          \* 1.0 / (1.0 + var / 100.0)
ExpandPercent == 30              \* expand_ratio = 0.30
DefaultThreshold == 30000        \* threshold = 0.30

None == <<>>
Some(v) == <<v>>

Min(a, b) == IF a <= b THEN a ELSE b
Max(a, b) == IF a >= b THEN a ELSE b

\* ------------------------------------------------------------ blur scoring
\* A grayscale region is known by what the scorers measure on it:
\*   lapvar  cv2.Laplacian(gray, CV_64F).var()
\*   hf, tot sum of the magnitude spectrum outside the central mask, and in all
\*   bd      outcome of bd.detectBlur: raises, or the mean of the blur map
\*           (possibly NaN)
\* A raw score is [nan |-> BOOLEAN, v |-> Int].

Num(v) == [nan |-> FALSE, v |-> v]
NaN == [nan |-> TRUE, v |-> 0]

\* a score that no longer falls once the variance has passed 60
LaplacianScoreFlat(fm, K) == (Scale * K) \div (K + Min(fm, 60))

\* 1.0 / (1.0 + fm / K)
LaplacianScore(fm, K) == (Scale * K) \div (K + fm)

\* _fft_blur_score: 1.0 - min(high_freq_ratio * 2.0, 1.0); the 1e-8 added to
\* the total only matters when the spectrum is all zero (ratio 0).
FftBlurScore(g) ==
    IF g.tot = 0 THEN Scale
    ELSE Scale - Min((2 * g.hf * Scale) \div g.tot, Scale)

\* a hybrid score that weighs the Laplacian term three times the FFT term
HybridScoreUnequal(g) ==
    (3 * LaplacianScore(g.lapvar, HybridLaplacianK) + FftBlurScore(g)) \div 4

\* a hybrid score whose Laplacian term uses the standalone constant
HybridScoreSameK(g) == (LaplacianScore(g.lapvar, LaplacianK) + FftBlurScore(g)) \div 2

\* 0.5 * lap_score + 0.5 * fft_score
HybridScore(g) == (LaplacianScore(g.lapvar, HybridLaplacianK) + FftBlurScore(g)) \div 2

\* a fallback that goes straight to the Laplacian score
FallbackLaplacianOnly(g) == Num(LaplacianScore(g.lapvar, LaplacianK))

\* the else branch: np.mean(blur_map) / 255.0, or Laplacian when bd raises
FallbackScore(g) ==
    IF g.bd.raises THEN Num(LaplacianScore(g.lapvar, LaplacianK))
    ELSE IF g.bd.nan THEN NaN
    ELSE Num((g.bd.mean * Scale) \div 255)

RawScore(g, method) ==
    IF method = "laplacian" THEN Num(LaplacianScore(g.lapvar, LaplacianK))
    ELSE IF method = "fft" THEN Num(FftBlurScore(g))
    ELSE IF method = "hybrid" THEN Num(HybridScore(g))
    ELSE FallbackScore(g)

\* a clamp that lets the raw value through
ClampNone(raw) == IF raw.nan THEN Scale + 1 ELSE raw.v

\* max(0.0, min(1.0, blur_score)): Python's min keeps its first argument
\* unless the second is smaller, so NaN becomes 1.0
Clamp(raw) == IF raw.nan THEN Scale ELSE Max(0, Min(Scale, raw.v))

\* a classifier that also counts a score equal to the threshold as blurred
IsBlurredGeq(score, threshold) == score >= threshold

\* is_blurred = blur_score > threshold
IsBlurred(score, threshold) == score > threshold

\* An analysis ends with a result or an exception, and with the trace of the
\* calls made for it, outermost first: the function, the use_face_detection
\* it was given, and the face box it was given (<<>> when it takes none).
Call(fn, faces, box) == [fn |-> fn, faces |-> faces, box |-> box]
Raised(type) == [ok |-> FALSE, exc |-> [type |-> type, status |-> 0], trace |-> <<>>]

\* the outcome d of what was called after the calls cs
After(cs, d) == [d EXCEPT !.trace = cs \o @]

\* the part of _analyze_blur below the face branch, on one grayscale region;
\* threshold None makes the comparison raise TypeError
AnalyzeRegion(g, threshold, method) ==
    LET s == Clamp(RawScore(g, method)) IN
    IF threshold = None
    THEN Raised("TypeError")
    ELSE [ok |-> TRUE, blur_score |-> s, is_blurred |-> IsBlurred(s, threshold[1]),
          trace |-> <<>>]

\* ---------------------------------------------------------- face selection
Area(b) == b[3] * b[4]

\* the faces in the order the cascade reported them
FacesAsDetected(s) == s

\* sorted(faces, key=lambda x: x[2] * x[3], reverse=True): stable, descending
RECURSIVE SortFaces(_)
SortFaces(s) ==
    IF s = <<>> THEN <<>>
    ELSE LET rest == SortFaces(SubSeq(s, 1, Len(s) - 1))
         IN  IF \E i \in 1..Len(rest) : Area(rest[i]) < Area(s[Len(s)])
             THEN LET k == CHOOSE i \in 1..Len(rest) :
                               /\ Area(rest[i]) < Area(s[Len(s)])
                               /\ \A j \in 1..(i - 1) : Area(rest[j]) >= Area(s[Len(s)])
                  IN  SubSeq(rest, 1, k - 1) \o <<s[Len(s)]>> \o SubSeq(rest, k, Len(rest))
             ELSE rest \o <<s[Len(s)]>>

\* _detect_faces: the cascade's boxes, largest first
DetectFaces(img) == SortFaces(img.boxes)

\* a crop that is not cut off at the borders of the image
GetFaceRoiUnclamped(img, b) ==
    LET expand_w == (b[3] * ExpandPercent) \div 100
        expand_h == (b[4] * ExpandPercent) \div 100
    IN  << b[1] - expand_w, b[2] - expand_h,
           b[1] + b[3] + expand_w, b[2] + b[4] + expand_h >>

\* _get_face_roi: <<x1, y1, x2, y2>> of the crop
GetFaceRoi(img, b) ==
    LET expand_w == (b[3] * ExpandPercent) \div 100
        expand_h == (b[4] * ExpandPercent) \div 100
    IN  << Max(0, b[1] - expand_w), Max(0, b[2] - expand_h),
           Min(img.w, b[1] + b[3] + expand_w), Min(img.h, b[2] + b[4] + expand_h) >>

\* face_roi.size == 0
RoiEmpty(r) == r[3] <= r[1] \/ r[4] <= r[2]

\* image[y1:y2, x1:x2] as an image of its own: the region to measure is the
\* crop; what the face detector would find in it is never asked for
FaceRoi(img, b) ==
    LET r == GetFaceRoi(img, b)
    IN  [img EXCEPT !.w = r[3] - r[1], !.h = r[4] - r[2], !.boxes = <<>>,
                    !.full = img.roi]

RECURSIVE AnalyzeBlur(_, _, _, _)

\* a face analysis whose nested analysis looks for faces again
AnalyzeFaceBlurAgain(img, faces, threshold, method) ==
    After(<<Call("_analyze_face_blur", FALSE, <<>>)>>,
          IF faces = <<>> THEN AnalyzeBlur(img, threshold, method, Some(FALSE))
          ELSE After(<<Call("_get_face_roi", FALSE, faces[1])>>,
                     IF RoiEmpty(GetFaceRoi(img, faces[1]))
                     THEN AnalyzeBlur(img, threshold, method, Some(FALSE))
                     ELSE AnalyzeBlur(FaceRoi(img, faces[1]), threshold, method,
                                      Some(TRUE))))

\* _analyze_face_blur: the largest face's crop, or the whole image when the
\* crop is empty; the nested analysis runs with face detection off
AnalyzeFaceBlur(img, faces, threshold, method) ==
    After(<<Call("_analyze_face_blur", FALSE, <<>>)>>,
          IF faces = <<>> THEN AnalyzeBlur(img, threshold, method, Some(FALSE))
          ELSE After(<<Call("_get_face_roi", FALSE, faces[1])>>,
                     IF RoiEmpty(GetFaceRoi(img, faces[1]))
                     THEN AnalyzeBlur(img, threshold, method, Some(FALSE))
                     ELSE AnalyzeBlur(FaceRoi(img, faces[1]), threshold, method,
                                      Some(FALSE))))

\* an analysis that calls an image without faces sharp when asked for faces
AnalyzeBlurFaceless(img, threshold, method, use_face_detection) ==
    IF use_face_detection = Some(TRUE) /\ ~img.det_raises /\ DetectFaces(img) = <<>>
    THEN [ok |-> TRUE, blur_score |-> 0, is_blurred |-> FALSE, trace |-> <<>>]
    ELSE IF use_face_detection = Some(TRUE) /\ ~img.det_raises
    THEN AnalyzeFaceBlur(img, DetectFaces(img), threshold, method)
    ELSE IF use_face_detection = Some(TRUE)
    THEN Raised("cv2.error")
    ELSE AnalyzeRegion(img.full, threshold, method)

\* _analyze_blur: with use_face_detection true the detector runs, and when
\* it finds faces _analyze_face_blur takes over
AnalyzeBlur(img, threshold, method, use_face_detection) ==
    IF use_face_detection = Some(TRUE)
    THEN After(<<Call("_analyze_blur", TRUE, <<>>), Call("_detect_faces", FALSE, <<>>)>>,
               IF img.det_raises THEN Raised("cv2.error")
               ELSE IF DetectFaces(img) # <<>>
                    THEN AnalyzeFaceBlur(img, DetectFaces(img), threshold, method)
                    ELSE AnalyzeRegion(img.full, threshold, method))
    ELSE After(<<Call("_analyze_blur", FALSE, <<>>)>>,
               AnalyzeRegion(img.full, threshold, method))

\* detect_blur_from_bytes: decode, then _analyze_blur; every failure re-raised
DetectBlurFromBytes(bytes, threshold, method, use_face_detection) ==
    IF bytes.kind = "empty" THEN Raised("cv2.error")
    ELSE IF bytes.kind = "garbage" THEN Raised("ValueError")
    ELSE AnalyzeBlur(bytes.img, threshold, method, use_face_detection)

\* ------------------------------------------------------------ photo records
Photos == {"p1", "p2"}
Users == {"u1", "u2"}
Owner(p) == IF p = "p1" THEN "u1" ELSE "u2"
GooglePhotoId(p) == IF p = "p1" THEN "g1" ELSE "g2"

\* a row of the photos table as fetch_media_items creates it: not analysed
NewPhoto(p) ==
    [id |-> p, user_id |-> Owner(p), google_photo_id |-> GooglePhotoId(p),
     blur_score |-> None, is_blurred |-> None, processed_at |-> None,
     tag |-> None, tagged_at |-> None, updated_at |-> 0]

\* db.query(Photo).filter(Photo.id == photo_id, Photo.user_id == user_id).first()
FindPhoto(st, photo_id, user_id) ==
    photo_id \in DOMAIN st /\ st[photo_id].user_id = user_id

\* get_photo_meta
GetPhotoMeta(st, photo_id, user_id) ==
    IF FindPhoto(st, photo_id, user_id)
    THEN [status |-> 200,
          body |-> Some([id |-> st[photo_id].id,
                         user_id |-> st[photo_id].user_id,
                         google_photo_id |-> st[photo_id].google_photo_id,
                         blur_score |-> st[photo_id].blur_score,
                         is_blurred |-> st[photo_id].is_blurred,
                         processed_at |-> st[photo_id].processed_at])]
    ELSE [status |-> 404, body |-> None]

\* blur_score = Column(DECIMAL(5, 4)): the stored score has four decimals
RoundDecimal(s) ==
    LET step == Scale \div DecimalUnits
    IN  ((s + step \div 2) \div step) * step

\* datetime.fromisoformat(updates["tagged_at"]): a datetime, or ValueError
IsoStrings == {"2026-01-01T00:00:00"}
FromIsoFormat(text) == [ok |-> text \in IsoStrings, value |-> [datetime |-> text]]

ColumnValue(key, value) ==
    IF key = "blur_score" /\ value # None THEN Some(RoundDecimal(value[1]))
    ELSE IF key = "tagged_at" /\ value # None THEN Some(FromIsoFormat(value[1]).value)
    ELSE value

\* an update that also clears the columns the request does not name
UpdateRowReplace(row, updates) ==
    [f \in DOMAIN row |->
        IF f \in DOMAIN updates THEN ColumnValue(f, updates[f])
        ELSE IF f \in {"blur_score", "is_blurred", "processed_at", "tag", "tagged_at"}
             THEN None ELSE row[f]]

\* for key, value in updates.items(): if hasattr(photo, key): setattr(...);
\* on commit a row that changed gets updated_at = now() (onupdate), here the
\* number of the row's update
UpdateRow(row, updates) ==
    LET set == [f \in DOMAIN row |->
                  IF f \in DOMAIN updates THEN ColumnValue(f, updates[f]) ELSE row[f]]
    IN  IF set = row \/ "updated_at" \in DOMAIN updates THEN set
        ELSE [set EXCEPT !.updated_at = row.updated_at + 1]

\* an update that refuses to overwrite a score that is already there
UpdatePhotoOnce(st, photo_id, user_id, updates) ==
    IF ~FindPhoto(st, photo_id, user_id) THEN [status |-> 404, store |-> st]
    ELSE IF st[photo_id].blur_score # None THEN [status |-> 409, store |-> st]
    ELSE [status |-> 200,
          store |-> [st EXCEPT ![photo_id] = UpdateRow(st[photo_id], updates)]]

\* update_photo: 404 and nothing changed when no row matches both keys; a
\* tagged_at that is no ISO date raises before the commit (400, or 500 when
\* it is null)
UpdatePhoto(st, photo_id, user_id, updates) ==
    IF ~FindPhoto(st, photo_id, user_id) THEN [status |-> 404, store |-> st]
    ELSE IF "tagged_at" \in DOMAIN updates /\ updates.tagged_at = None
    THEN [status |-> 500, store |-> st]
    ELSE IF "tagged_at" \in DOMAIN updates /\ ~FromIsoFormat(updates.tagged_at[1]).ok
    THEN [status |-> 400, store |-> st]
    ELSE [status |-> 200,
          store |-> [st EXCEPT ![photo_id] = UpdateRow(st[photo_id], updates)]]

\* ---------------------------------------------------------- image retrieval
\* What requests.get(proxy_url, ...) can produce:
\*   net "ok" with a status, a content-type and a body, or a Timeout, or a
\*   ConnectionError.  A body is [kind |-> "empty" | "garbage" | "image", img].
HttpExc(status) == [type |-> "HTTPException", status |-> status]

\* main.py _fetch_image_from_photo_service
FetchImageSync(resp) ==
    IF resp.net = "timeout" THEN [ok |-> FALSE, exc |-> HttpExc(408)]
    ELSE IF resp.net = "conn" THEN [ok |-> FALSE, exc |-> HttpExc(503)]
    ELSE IF resp.status = 404 THEN [ok |-> FALSE, exc |-> HttpExc(404)]
    ELSE IF resp.status = 403 THEN [ok |-> FALSE, exc |-> HttpExc(403)]
    ELSE IF resp.status # 200 THEN [ok |-> FALSE, exc |-> HttpExc(resp.status)]
    ELSE IF ~resp.image_type THEN [ok |-> FALSE, exc |-> HttpExc(400)]
    ELSE IF resp.body.kind = "empty" THEN [ok |-> FALSE, exc |-> HttpExc(400)]
    ELSE [ok |-> TRUE, bytes |-> resp.body]

\* blur_tasks.py _fetch_image_from_photo_service
FetchImageWorker(resp) ==
    IF resp.net # "ok" THEN [ok |-> FALSE, exc |-> HttpExc(500)]
    ELSE IF resp.status = 404 THEN [ok |-> FALSE, exc |-> HttpExc(404)]
    ELSE IF resp.status = 403 THEN [ok |-> FALSE, exc |-> HttpExc(403)]
    ELSE IF resp.status # 200 THEN [ok |-> FALSE, exc |-> HttpExc(resp.status)]
    ELSE IF ~resp.image_type THEN [ok |-> FALSE, exc |-> HttpExc(400)]
    ELSE [ok |-> TRUE, bytes |-> resp.body]

\* an outer handler that lets the step's own HTTPException through
AnalysisErrorTyped(exc) ==
    IF exc.type = "HTTPException" THEN exc ELSE HttpExc(500)

\* except Exception as e: raise HTTPException(status_code=500, ...)
AnalysisError(exc) == HttpExc(500)

\* ------------------------------------------------------------ request inputs
Workers == {"w1", "w2"}
SyncHandler == "s1"
Executors == Workers \cup {SyncHandler}

Options(threshold, method, use_face_detection) ==
    [threshold |-> threshold, method |-> method,
     use_face_detection |-> use_face_detection]

Region(lapvar, hf, tot, bd) == [lapvar |-> lapvar, hf |-> hf, tot |-> tot, bd |-> bd]
BdMean(m) == [raises |-> FALSE, nan |-> FALSE, mean |-> m]
BdNaN == [raises |-> FALSE, nan |-> TRUE, mean |-> 0]
BdRaises == [raises |-> TRUE, nan |-> FALSE, mean |-> 0]

\* a flat image without faces, and a portrait with two faces whose larger
\* face is sharper than the image as a whole
FlatImage ==
    [w |-> 100, h |-> 100, boxes |-> <<>>, det_raises |-> FALSE,
     full |-> Region(0, 0, 1000, BdMean(255)),
     roi |-> Region(0, 0, 1000, BdMean(255))]
PortraitImage ==
    [w |-> 200, h |-> 100, boxes |-> << <<10, 10, 30, 30>>, <<100, 20, 60, 60>> >>,
     det_raises |-> FALSE,
     full |-> Region(60, 300, 1000, BdMean(128)),
     roi |-> Region(360, 450, 1000, BdMean(51))]

ImageBody(img) == [kind |-> "image", img |-> img]
EmptyBody == [kind |-> "empty", img |-> FlatImage]
GarbageBody == [kind |-> "garbage", img |-> FlatImage]

HttpAnswer(status, image_type, body) ==
    [net |-> "ok", status |-> status, image_type |-> image_type, body |-> body]
NetFailure(kind) ==
    [net |-> kind, status |-> 0, image_type |-> FALSE, body |-> EmptyBody]

\* every way the image fetch can fail
FailedAnswers ==
    { HttpAnswer(404, FALSE, GarbageBody), HttpAnswer(403, FALSE, GarbageBody),
      HttpAnswer(500, FALSE, GarbageBody), HttpAnswer(200, FALSE, GarbageBody),
      HttpAnswer(200, TRUE, EmptyBody), HttpAnswer(200, TRUE, GarbageBody),
      NetFailure("timeout"), NetFailure("conn") }

\* every way the metadata request can end: an answer of the photos service,
\* a timeout, a refused connection, a 500 of a proxy in between
MetaNet == {"ok", "timeout", "conn", "http500"}

\* The queue pipeline: the owner of one photo submits batches of it with the
\* default options, the photos service answers the metadata request, and the
\* image fetch answers 403 or serves the portrait.
PipelinePhotos == {"p1"}
PipelineBatchUsers == {"u1"}
\* BatchRequest's defaults: threshold 0.30, method "hybrid", use_face_detection True
BatchDefaults == Options(Some(DefaultThreshold), "hybrid", Some(TRUE))

PipelineBatchOptions == { BatchDefaults }
PipelineMeta == {"ok"}
PipelineAnswers ==
    { HttpAnswer(403, FALSE, GarbageBody),
      HttpAnswer(200, TRUE, ImageBody(PortraitImage)) }

\* Synchronous requests racing with queued tasks for the same photo: either
\* user asks, with options that give another score than the defaults or with
\* a null threshold; every failure of the two fetches can happen.
RaceSyncOptions ==
    { Options(Some(Scale), "laplacian", Some(FALSE)),
      Options(None, "laplacian", Some(FALSE)) }
RaceAnswers == FailedAnswers \cup { HttpAnswer(200, TRUE, ImageBody(PortraitImage)) }

\* One analysis, synchronous or queued, of any image under any options.
DetectRegions ==
    { Region(v, e[1], e[2], bd) :
        v \in {0, 60, 360},
        e \in { <<0, 0>>, <<0, 1000>>, <<300, 1000>>, <<450, 1000>>, <<900, 1000>> },
        bd \in { BdRaises, BdNaN, BdMean(0 - 51), BdMean(0), BdMean(102), BdMean(255),
                 BdMean(510) } }
DetectImages ==
    { [w |-> 200, h |-> 100, boxes |-> b, det_raises |-> FALSE,
       full |-> IF b = <<>> THEN g ELSE FlatImage.full, roi |-> g] :
        g \in DetectRegions, b \in { <<>>, PortraitImage.boxes } }
    \cup { [FlatImage EXCEPT !.det_raises = TRUE] }
DetectAnswers == FailedAnswers \cup { HttpAnswer(200, TRUE, ImageBody(img)) : img \in DetectImages }
Methods == {"laplacian", "fft", "hybrid", "other"}
DetectSyncOptions ==
    { Options(t, m, f) :
        t \in { None, Some(0), Some(DefaultThreshold), Some(40000), Some(Scale) },
        m \in Methods, f \in { None, Some(TRUE), Some(FALSE) } }
DetectBatchOptions ==
    { Options(Some(t), m, Some(f)) :
        t \in { 0 - 10000, 0, DefaultThreshold, 40000, Scale, Scale + 50000 },
        m \in Methods, f \in BOOLEAN }

\* Batch submission of any photos by any user.
SubmitOptions ==
    { Options(Some(DefaultThreshold), "hybrid", Some(TRUE)),
      Options(Some(Scale + 50000), "other", Some(FALSE)) }

\* --------------------------------------------------------------------- state
VARIABLES
    store,      \* photos table: photo id -> row
    queue,      \* the "blur_analysis" queue: tasks waiting, oldest first
    enqueued,   \* every task ever enqueued, in order (history)
    batch,      \* position of the /analyze/batch handler
    ex,         \* executor -> the run it is executing, 0 when idle
    runs,       \* every analysis run started so far, indexed by run id
    net,        \* PATCH requests sent and not yet handled by the photos service
    applied,    \* updates the photos service committed, in order (history)
    gw          \* the API gateway's batch route and its call of the blur service

vars == <<store, queue, enqueued, batch, ex, runs, net, applied, gw>>

Init ==
    /\ store = [p \in Photos |-> NewPhoto(p)]
    /\ queue = <<>>
    /\ enqueued = <<>>
    /\ batch = [pc |-> "idle", req |-> None, i |-> 0, base |-> 0, resp |-> None]
    /\ ex = [e \in Executors |-> 0]
    /\ runs = <<>>
    /\ net = {}
    /\ applied = <<>>
    /\ gw = [pc |-> "idle", served |-> 0, req |-> None, attempts |-> 0,
             raised |-> None, resp |-> None]

\* the service's handlers are async def and never yield while they run, so
\* the event loop runs one of them at a time
LoopFree == batch.pc = "idle" /\ ex[SyncHandler] = 0

NewRun(e, job, photo_id, user_id, opts) ==
    [by |-> e, job |-> job, photo_id |-> photo_id, user_id |-> user_id,
     opts |-> opts, pc |-> "meta", calls |-> <<>>, meta |-> None,
     answer |-> None, bytes |-> None, trace |-> <<>>, result |-> None, payload |-> None,
     patch_status |-> None,
     outcome |-> "running", stage |-> "", exc |-> None, response |-> None]

\* the except clause of analyze_single_photo: the run ends with the error
Failed(run, stage, exc) ==
    [run EXCEPT !.pc = "done", !.outcome = "failed", !.stage = stage,
                !.exc = Some(exc), !.response = Some(AnalysisError(exc))]

\* -------------------------------------------------------------- batch submit
\* a task that forgets whose photo it is
NewTaskNoUser(job, photo_id, user_id, opts) ==
    [job |-> job, photo_id |-> photo_id, user_id |-> "u1", opts |-> opts]

\* queue.enqueue(analyze_single_photo, photo_id, user_id, threshold, method,
\*               use_face_detection)
NewTask(job, photo_id, user_id, opts) ==
    [job |-> job, photo_id |-> photo_id, user_id |-> user_id, opts |-> opts]

\* an enqueue that skips a photo that is already waiting in the queue
EnqueueDedup(q, t) ==
    IF \E i \in 1..Len(q) : q[i].photo_id = t.photo_id THEN q ELSE Append(q, t)

\* an enqueue that puts the task at the head of the queue
EnqueueAtFront(q, t) == <<t>> \o q

\* an enqueue that turns the task away when two tasks are waiting
EnqueueBounded(q, t) == IF Len(q) >= 2 THEN q ELSE Append(q, t)

\* enqueue_photo_analysis: queue.enqueue(...) puts the task at the end
EnqueuePhotoAnalysis(q, t) == Append(q, t)

\* analyze_batch_photo is entered with the parsed BatchRequest
BatchStart(user_id, photo_ids, o, done) ==
    [pc |-> "loop",
     req |-> Some([user_id |-> user_id, photo_ids |-> photo_ids, opts |-> o]),
     i |-> 1, base |-> done, resp |-> None]

\* POST /analyze/batch arrives
BatchRequest(PhotoSet, UserSet, OptionSet, Sizes, JobLimit) ==
    /\ LoopFree
    /\ \E user_id \in UserSet, n \in Sizes, o \in OptionSet :
         /\ Len(enqueued) + n <= JobLimit
         /\ \E photo_ids \in [1..n -> PhotoSet] :
              batch' = BatchStart(user_id, photo_ids, o, Len(enqueued))
    /\ UNCHANGED <<store, queue, enqueued, ex, runs, net, applied, gw>>

\* one turn of: for photo_id in req.photo_ids: enqueue_photo_analysis(...)
BatchEnqueue ==
    /\ batch.pc = "loop"
    /\ batch.i <= Len(batch.req[1].photo_ids)
    /\ LET req == batch.req[1]
           t == NewTask(Len(enqueued) + 1, req.photo_ids[batch.i], req.user_id, req.opts)
       IN  /\ queue' = EnqueuePhotoAnalysis(queue, t)
           /\ enqueued' = Append(enqueued, t)
    /\ batch' = [batch EXCEPT !.i = @ + 1]
    /\ UNCHANGED <<store, ex, runs, net, applied, gw>>

\* a count that ignores repeated photo ids
BatchCountDistinct(photo_ids) == Cardinality({photo_ids[i] : i \in 1..Len(photo_ids)})

\* "count": len(req.photo_ids)
BatchCount(photo_ids) == Len(photo_ids)

\* return {"status": "queued", "count": len(req.photo_ids)}
BatchReturn ==
    /\ batch.pc = "loop"
    /\ batch.i > Len(batch.req[1].photo_ids)
    /\ batch' = [batch EXCEPT !.pc = "idle",
                              !.resp = Some([status |-> "queued",
                                             count |-> BatchCount(batch.req[1].photo_ids)])]
    /\ UNCHANGED <<store, queue, enqueued, ex, runs, net, applied, gw>>

\* ------------------------------------------------------------------- workers
\* a dequeue that leaves the task at the head of the queue
QueueAfterPeek(q) == q

\* a dequeue that removes the newest task instead of the one it runs
QueueAfterPopLast(q) == SubSeq(q, 1, Len(q) - 1)

\* the queue after the worker popped its head
QueueAfterPop(q) == Tail(q)

\* Worker.work(): an idle worker pops the oldest task and runs it
Dequeue(w) ==
    /\ ex[w] = 0
    /\ queue # <<>>
    /\ LET t == Head(queue)
       IN  runs' = Append(runs, NewRun(w, t.job, t.photo_id, t.user_id, t.opts))
    /\ ex' = [ex EXCEPT ![w] = Len(runs) + 1]
    /\ queue' = QueueAfterPop(queue)
    /\ UNCHANGED <<store, enqueued, batch, net, applied, gw>>

\* ------------------------------------------------------- synchronous request
SyncRuns == {r \in 1..Len(runs) : runs[r].job = 0}

\* POST /analyze/{photo_id} arrives
SyncRequest(PhotoSet, UserSet, OptionSet, SyncLimit) ==
    /\ LoopFree
    /\ Cardinality(SyncRuns) < SyncLimit
    /\ \E photo_id \in PhotoSet, user_id \in UserSet, o \in OptionSet :
         runs' = Append(runs, NewRun(SyncHandler, 0, photo_id, user_id, o))
    /\ ex' = [ex EXCEPT ![SyncHandler] = Len(runs) + 1]
    /\ UNCHANGED <<store, queue, enqueued, batch, net, applied, gw>>

\* -------------------------------------------------- the orchestrator's steps
\* both copies of analyze_single_photo; the copies differ in the image fetch
\* and in the clock reading that goes into the update
Running(e, pc) == ex[e] # 0 /\ runs[ex[e]].pc = pc

\* a worker that does not come back from a run that raised
ContinueUnlessFailed(e, run) ==
    /\ runs' = [runs EXCEPT ![ex[e]] = run]
    /\ ex' = [ex EXCEPT ![e] = IF run.pc = "done" /\ run.outcome = "ok" THEN 0 ELSE @]

\* the run of executor e goes on as `run`; when it is over the handler
\* returns and the worker is idle again
Continue(e, run) ==
    /\ runs' = [runs EXCEPT ![ex[e]] = run]
    /\ ex' = [ex EXCEPT ![e] = IF run.pc = "done" THEN 0 ELSE @]

\* requests.get(f"{PHOTOS_SERVICE_URL}/photos/{photo_id}/meta", ..., timeout=10)
\* with the outcome m of the network and the photos table st; of the answer
\* the run reads photo["id"] and photo["google_photo_id"]
MetaStep(run0, st, m) ==
    LET run == [run0 EXCEPT !.calls = Append(@, "get_meta")]
        resp == GetPhotoMeta(st, run.photo_id, run.user_id)
    IN  IF m = "timeout" THEN Failed(run, "meta", [type |-> "Timeout", status |-> 0])
        ELSE IF m = "conn"
        THEN Failed(run, "meta", [type |-> "ConnectionError", status |-> 0])
        ELSE IF m = "http500" THEN Failed(run, "meta", HttpExc(500))
        ELSE IF resp.status # 200 THEN Failed(run, "meta", HttpExc(resp.status))
        ELSE [run EXCEPT !.pc = "fetch",
                         !.meta = Some([id |-> resp.body[1].id,
                                        google_photo_id |-> resp.body[1].google_photo_id])]

\* an image fetch that is tried a second time when it failed
FetchStepRetry(run0, resp) ==
    LET run == [run0 EXCEPT !.calls = Append(@, "get_image"), !.answer = Some(resp)]
        f == IF run.job = 0 THEN FetchImageSync(resp) ELSE FetchImageWorker(resp)
    IN  IF ~f.ok THEN Failed([run EXCEPT !.calls = Append(@, "get_image")], "fetch", f.exc)
        ELSE [run EXCEPT !.pc = "analyze", !.bytes = Some(f.bytes)]

\* _fetch_image_from_photo_service(photo["google_photo_id"], user_id), when
\* the requests.get of the image produces resp
FetchStep(run0, resp) ==
    LET run == [run0 EXCEPT !.calls = Append(@, "get_image"), !.answer = Some(resp)]
        f == IF run.job = 0 THEN FetchImageSync(resp) ELSE FetchImageWorker(resp)
    IN  IF ~f.ok THEN Failed(run, "fetch", f.exc)
        ELSE [run EXCEPT !.pc = "analyze", !.bytes = Some(f.bytes)]

\* an update without a score when the photo is not blurred
BlurUpdatesSparse(blur_score, is_blurred, processed_at) ==
    [blur_score |-> IF is_blurred THEN Some(blur_score) ELSE None,
     is_blurred |-> Some(is_blurred), processed_at |-> Some(processed_at)]

\* json={"blur_score": ..., "is_blurred": ..., "processed_at": ...}
BlurUpdates(blur_score, is_blurred, processed_at) ==
    [blur_score |-> Some(blur_score), is_blurred |-> Some(is_blurred),
     processed_at |-> Some(processed_at)]

\* datetime.utcnow(): the value of the k-th reading of the clock in a run.
\* Readings are told apart by where they were taken; two readings of one run
\* may give the same instant.
ClockReading(run_id, k) == [run |-> run_id, read |-> k]

\* where a failure of detect_blur_from_bytes comes from
DetectStage(bytes) == IF bytes.kind # "image" THEN "decode" ELSE "score"

\* a detection step whose worker copy never looks for faces
DetectStepWorkerFull(run, t, t2) ==
    LET d == DetectBlurFromBytes(run.bytes[1], run.opts.threshold, run.opts.method,
                                 IF run.job = 0 THEN run.opts.use_face_detection
                                 ELSE Some(FALSE))
    IN  IF ~d.ok THEN Failed([run EXCEPT !.trace = d.trace], DetectStage(run.bytes[1]), d.exc)
        ELSE [run EXCEPT !.pc = "patch", !.trace = d.trace,
                         !.calls = Append(@, "patch"),
                         !.result = Some([blur_score |-> d.blur_score,
                                          is_blurred |-> d.is_blurred,
                                          processed_at |-> t]),
                         !.payload = Some(BlurUpdates(d.blur_score, d.is_blurred,
                                                      IF run.job = 0 THEN t2 ELSE t))]

\* a detection step that has its update sent even when the detection raised
DetectStepEager(run, t, t2) ==
    LET d == DetectBlurFromBytes(run.bytes[1], run.opts.threshold, run.opts.method,
                                 run.opts.use_face_detection)
    IN  IF ~d.ok
        THEN [Failed([run EXCEPT !.trace = d.trace], DetectStage(run.bytes[1]), d.exc)
                 EXCEPT !.payload = Some(BlurUpdates(0, FALSE, t))]
        ELSE [run EXCEPT !.pc = "patch", !.trace = d.trace,
                         !.calls = Append(@, "patch"),
                         !.result = Some([blur_score |-> d.blur_score,
                                          is_blurred |-> d.is_blurred,
                                          processed_at |-> t]),
                         !.payload = Some(BlurUpdates(d.blur_score, d.is_blurred,
                                                      IF run.job = 0 THEN t2 ELSE t))]

\* detect_blur_from_bytes, processed_at = utcnow() read as t, and the update
\* built for requests.patch, which is then sent; main.py reads the clock
\* again (t2) for the update, blur_tasks.py sends the reading it returns
DetectStep(run, t, t2) ==
    LET d == DetectBlurFromBytes(run.bytes[1], run.opts.threshold, run.opts.method,
                                 run.opts.use_face_detection)
    IN  IF ~d.ok THEN Failed([run EXCEPT !.trace = d.trace], DetectStage(run.bytes[1]), d.exc)
        ELSE [run EXCEPT !.pc = "patch", !.trace = d.trace,
                         !.calls = Append(@, "patch"),
                         !.result = Some([blur_score |-> d.blur_score,
                                          is_blurred |-> d.is_blurred,
                                          processed_at |-> t]),
                         !.payload = Some(BlurUpdates(d.blur_score, d.is_blurred,
                                                      IF run.job = 0 THEN t2 ELSE t))]

\* the run from its first line to the moment the PATCH is on its way: each
\* step is taken only if the one before it did not raise.  Nothing in it
\* writes shared state, so the steps are taken together.
Orchestrate(e, MetaSet, Answers) ==
    /\ Running(e, "meta")
    /\ \E m \in MetaSet :
         LET afterMeta == MetaStep(runs[ex[e]], store, m)
         IN  IF afterMeta.pc = "done"
             THEN Continue(e, afterMeta) /\ UNCHANGED net
             ELSE \E resp \in Answers :
                    LET afterFetch == FetchStep(afterMeta, resp)
                    IN  IF afterFetch.pc = "done"
                        THEN Continue(e, afterFetch) /\ UNCHANGED net
                        ELSE \E t2 \in {ClockReading(ex[e], 1), ClockReading(ex[e], 2)} :
                               LET run == DetectStep(afterFetch, ClockReading(ex[e], 1), t2)
                               IN  /\ Continue(e, run)
                                   /\ net' = IF run.payload = None THEN net
                                             ELSE net \cup {[run |-> ex[e],
                                                             photo_id |-> run.photo_id,
                                                             user_id |-> run.user_id,
                                                             updates |-> run.payload[1]]}
    /\ UNCHANGED <<store, queue, enqueued, batch, applied, gw>>

\* the photos service handles one PATCH /photos/{photo_id}: update_photo
StoreUpdate ==
    /\ \E m \in net :
         LET u == UpdatePhoto(store, m.photo_id, m.user_id, m.updates)
         IN  /\ store' = u.store
             /\ net' = net \ {m}
             /\ runs' = [runs EXCEPT ![m.run].patch_status = Some(u.status)]
             /\ applied' = IF u.status = 200
                           THEN Append(applied, [run |-> m.run, photo_id |-> m.photo_id,
                                                 before |-> store[m.photo_id],
                                                 updates |-> m.updates])
                           ELSE applied
    /\ UNCHANGED <<queue, enqueued, batch, ex, gw>>

\* the answer to the PATCH arrives: return the result, or raise on non-200
PatchReturn(e) ==
    /\ Running(e, "patch")
    /\ runs[ex[e]].patch_status # None
    /\ LET run == runs[ex[e]]
       IN  IF run.patch_status[1] = 200
           THEN Continue(e, [run EXCEPT !.pc = "done", !.outcome = "ok",
                                        !.response = Some([type |-> "result", status |-> 200])])
           ELSE Continue(e, Failed(run, "patch", HttpExc(run.patch_status[1])))
    /\ UNCHANGED <<store, queue, enqueued, batch, net, applied, gw>>

\* timeout=10 expires before the answer arrives; the request stays where it
\* is: the photos service may still handle it, or never see it
PatchTimeout(e) ==
    /\ Running(e, "patch")
    /\ Continue(e, Failed(runs[ex[e]], "patch", [type |-> "Timeout", status |-> 0]))
    /\ UNCHANGED <<store, queue, enqueued, batch, net, applied, gw>>

\* Bodies of update requests: the analysis result, the tag with its time
\* (as tag_photo sends it), a tag whose time is no ISO date, and a key
\* the table does not have.
PatchBodies ==
    { BlurUpdates(15869, FALSE, ClockReading(0, 1)),
      [tag |-> Some("portrait"), tagged_at |-> Some("2026-01-01T00:00:00")],
      [tag |-> Some("portrait"), tagged_at |-> Some("yesterday")],
      [caption |-> Some("portrait")] }

\* PATCH /photos/{photo_id}?user_id=... arrives from any client with a JSON
\* object as body, such as the one tag_photo sends
PatchRequest(PhotoSet, UserSet, UpdateSet, Limit) ==
    /\ Len(runs) < Limit
    /\ \E photo_id \in PhotoSet, user_id \in UserSet, updates \in UpdateSet :
         /\ runs' = Append(runs, [NewRun("client", 0 - 1, photo_id, user_id, None)
                                    EXCEPT !.pc = "patch", !.calls = <<"patch">>,
                                           !.payload = Some(updates)])
         /\ net' = net \cup {[run |-> Len(runs) + 1, photo_id |-> photo_id,
                               user_id |-> user_id, updates |-> updates]}
    /\ UNCHANGED <<store, queue, enqueued, batch, ex, applied, gw>>

\* the queue pipeline: batches and workers
Next ==
    \/ BatchRequest(PipelinePhotos, PipelineBatchUsers, PipelineBatchOptions,
                    1..MaxBatch, MaxJobs)
    \/ BatchEnqueue
    \/ BatchReturn
    \/ \E w \in Workers : Dequeue(w)
    \/ \E w \in Workers : Orchestrate(w, PipelineMeta, PipelineAnswers)
    \/ StoreUpdate
    \/ \E w \in Workers : PatchReturn(w)
    \/ \E w \in Workers : PatchTimeout(w)

Spec == Init /\ [][Next]_vars

\* The queue pipeline with its scheduling.  The batch handler runs to its
\* end; worker w1 (Worker(["blur_analysis"]).work()) takes a task whenever
\* it is idle and one is waiting, the other worker may or may not; and a run
\* that a worker started does not wait for ever, since each of its requests
\* has a timeout (timeout=10, timeout=30, timeout=10) that ends the wait
\* unless an answer did.
LiveMeta == {"ok", "timeout"}

NextLive ==
    \/ BatchRequest(PipelinePhotos, PipelineBatchUsers, PipelineBatchOptions,
                    1..MaxLiveJobs, MaxLiveJobs)
    \/ BatchEnqueue
    \/ BatchReturn
    \/ \E w \in Workers : Dequeue(w)
    \/ \E w \in Workers : Orchestrate(w, LiveMeta, PipelineAnswers)
    \/ StoreUpdate
    \/ \E w \in Workers : PatchReturn(w)
    \/ \E w \in Workers : PatchTimeout(w)

Fairness ==
    /\ WF_vars(BatchEnqueue)
    /\ WF_vars(BatchReturn)
    /\ WF_vars(Dequeue("w1"))
    /\ \A w \in Workers :
         /\ WF_vars(Orchestrate(w, {"timeout"}, PipelineAnswers))
         /\ WF_vars(PatchTimeout(w))

SpecLive == Init /\ [][NextLive]_vars /\ Fairness

\* synchronous requests and queued tasks together
NextRace ==
    \/ BatchRequest(PipelinePhotos, PipelineBatchUsers, PipelineBatchOptions,
                    {1}, MaxRaceRuns - Cardinality(SyncRuns))
    \/ BatchEnqueue
    \/ BatchReturn
    \/ SyncRequest(PipelinePhotos, Users, RaceSyncOptions, MaxRaceRuns - Len(enqueued))
    \/ \E w \in Workers : Dequeue(w)
    \/ \E e \in Executors : Orchestrate(e, MetaNet, RaceAnswers)
    \/ StoreUpdate
    \/ \E e \in Executors : PatchReturn(e)
    \/ \E e \in Executors : PatchTimeout(e)

SpecRace == Init /\ [][NextRace]_vars

\* one analysis at a time: a single request, synchronous or a batch of one
NoRequestYet == runs = <<>> /\ enqueued = <<>> /\ batch.req = None

NextDetect ==
    \/ NoRequestYet /\ BatchRequest(PipelinePhotos, PipelineBatchUsers, DetectBatchOptions,
                                     {1}, 1)
    \/ BatchEnqueue
    \/ BatchReturn
    \/ NoRequestYet /\ SyncRequest(PipelinePhotos, PipelineBatchUsers, DetectSyncOptions, 1)
    \/ \E w \in Workers : Dequeue(w)
    \/ \E e \in Executors : Orchestrate(e, PipelineMeta, DetectAnswers)
    \/ StoreUpdate
    \/ \E e \in Executors : PatchReturn(e)
    \/ \E e \in Executors : PatchTimeout(e)

SpecDetect == Init /\ [][NextDetect]_vars

\* batch submission while workers take tasks off the queue
NextSubmit ==
    \/ BatchRequest(Photos, Users, SubmitOptions, 0..MaxBatch, MaxJobs)
    \/ BatchEnqueue
    \/ BatchReturn
    \/ \E w \in Workers : Dequeue(w)

SpecSubmit == Init /\ [][NextSubmit]_vars

\* the photos service alone, with update requests of any client
NextUpdate ==
    \/ PatchRequest(Photos, Users, PatchBodies, MaxPatches)
    \/ StoreUpdate

SpecUpdate == Init /\ [][NextUpdate]_vars

\* ------------------------------------------------------------ face selection
\* One synchronous analysis with face detection of an image in which the
\* cascade finds any list of up to MaxFaces boxes; the boxes lie inside the
\* image and are at least minSize = (30, 30).
ImageSizes == { <<200, 100>>, <<64, 48>> }
FaceBoxes ==
    { <<10, 10, 30, 30>>, <<20, 5, 30, 30>>, <<100, 20, 60, 60>>, <<140, 0, 60, 100>>,
      <<0, 0, 64, 48>> }
BoxesIn(size) == {b \in FaceBoxes : b[1] + b[3] <= size[1] /\ b[2] + b[4] <= size[2]}
BoxLists(size) == UNION { [1..n -> BoxesIn(size)] : n \in 0..MaxFaces }
FaceImages ==
    UNION { { [w |-> size[1], h |-> size[2], boxes |-> bs, det_raises |-> FALSE,
               full |-> PortraitImage.full, roi |-> PortraitImage.roi] :
                bs \in BoxLists(size) } : size \in ImageSizes }
FaceAnswers == { HttpAnswer(200, TRUE, ImageBody(img)) : img \in FaceImages }

NextFaces ==
    \/ NoRequestYet /\ SyncRequest(PipelinePhotos, PipelineBatchUsers, {BatchDefaults}, 1)
    \/ Orchestrate(SyncHandler, PipelineMeta, FaceAnswers)
    \/ StoreUpdate
    \/ PatchReturn(SyncHandler)
    \/ PatchTimeout(SyncHandler)

SpecFaces == Init /\ [][NextFaces]_vars

\* --------------------------------------------------------------- API gateway
\* stop=stop_after_attempt(3)
StopAfterAttempt == 3

\* retry=retry_if_exception_type((httpx.TimeoutException, httpx.NetworkError))
RetryOn == {"TimeoutException", "NetworkError"}

\* the classes an exception is an instance of
Bases(type) ==
    CASE type = "TimeoutException" -> {"TimeoutException", "TransportError", "Exception"}
      [] type = "NetworkError" -> {"NetworkError", "TransportError", "Exception"}
      [] type = "HTTPStatusError" -> {"HTTPStatusError", "Exception"}
      [] type = "ServiceUnavailableError" ->
             {"ServiceUnavailableError", "ServiceError", "Exception"}
      [] type = "ServiceError" -> {"ServiceError", "Exception"}

IsInstance(type, classes) == Bases(type) \cap classes # {}

\* what httpx can raise out of self.client.request and raise_for_status
HttpxFaults ==
    { [type |-> "TimeoutException", status_code |-> 0],
      [type |-> "NetworkError", status_code |-> 0],
      [type |-> "HTTPStatusError", status_code |-> 500] }

\* a timeout while the gateway waits for the answer of a delivered request
ReadTimeout == [type |-> "TimeoutException", status_code |-> 0]

\* the except clauses of _request: what leaves the function body
RequestRaises(e) ==
    IF IsInstance(e.type, {"TimeoutException"})
    THEN [type |-> "ServiceUnavailableError", status_code |-> 503]
    ELSE IF IsInstance(e.type, {"NetworkError"})
    THEN [type |-> "ServiceUnavailableError", status_code |-> 503]
    ELSE IF IsInstance(e.type, {"HTTPStatusError"})
    THEN [type |-> "ServiceError", status_code |-> e.status_code]
    ELSE [type |-> "ServiceError", status_code |-> 500]

\* the retry decorator: whether the attempt that raised exc is followed by another
RetryAgain(exc, attempts) ==
    IsInstance(exc.type, RetryOn) /\ attempts < StopAfterAttempt

\* batch_analyze wraps whatever _request raised in a ServiceError, and the
\* route answers with that error's status code
BatchAnalyzeRaises(exc) == [type |-> "ServiceError", status_code |-> 500]

RouteError(exc) == [status_code |-> exc.status_code, jobs |-> <<>>, total |-> 0]

\* jobs_list = batch_data.get("jobs") or batch_data.get("job_ids", [])
JobsList(batch_data) ==
    IF "jobs" \in DOMAIN batch_data /\ batch_data.jobs # <<>> THEN batch_data.jobs
    ELSE IF "job_ids" \in DOMAIN batch_data THEN batch_data.job_ids
    ELSE <<>>

\* BlurAnalysisJobResponse(job_id=..., status=JobStatus.PENDING, ...)
JobResponse(job) == [job_id |-> job, status |-> "pending"]

\* BatchAnalyzeResponse(jobs=jobs, total=len(jobs)), answered with 202
RouteAccepted(batch_data) ==
    LET jobs_list == JobsList(batch_data)
        jobs == [i \in 1..Len(jobs_list) |-> JobResponse(jobs_list[i])]
    IN  [status_code |-> 202, jobs |-> jobs, total |-> Len(jobs)]

\* the attempt of _request that raised e has ended
AfterRaise(g, e) ==
    LET exc == RequestRaises(e)
    IN  IF RetryAgain(exc, g.attempts)
        THEN [g EXCEPT !.pc = "call"]
        ELSE [g EXCEPT !.pc = "done", !.raised = Some(exc),
                       !.resp = Some(RouteError(BatchAnalyzeRaises(exc)))]

\* POST /blur/analyze-batch arrives at the gateway
GatewayBatchRequest(PhotoSet, UserSet, Sizes, Limit) ==
    /\ gw.pc \in {"idle", "done"}
    /\ gw.served < Limit
    /\ \E user_id \in UserSet, n \in Sizes : \E photo_ids \in [1..n -> PhotoSet] :
         gw' = [pc |-> "call", served |-> gw.served + 1,
                req |-> Some([user_id |-> user_id, photo_ids |-> photo_ids]),
                attempts |-> 0, raised |-> None, resp |-> None]
    /\ UNCHANGED <<store, queue, enqueued, batch, ex, runs, net, applied>>

\* an attempt of _request whose self.client.request raises
GatewayFault ==
    /\ gw.pc = "call"
    /\ \E e \in HttpxFaults :
         gw' = AfterRaise([gw EXCEPT !.attempts = @ + 1], e)
    /\ UNCHANGED <<store, queue, enqueued, batch, ex, runs, net, applied>>

\* an attempt of _request whose POST /analyze/batch reaches the blur service
GatewayDeliver(JobLimit) ==
    /\ gw.pc = "call"
    /\ LoopFree
    /\ Len(enqueued) + Len(gw.req[1].photo_ids) <= JobLimit
    /\ batch' = BatchStart(gw.req[1].user_id, gw.req[1].photo_ids, BatchDefaults,
                           Len(enqueued))
    /\ gw' = [gw EXCEPT !.pc = "wait", !.attempts = @ + 1]
    /\ UNCHANGED <<store, queue, enqueued, ex, runs, net, applied>>

\* the blur service's answer arrives: _request returns it, post() decodes it
GatewayResponse ==
    /\ gw.pc = "wait"
    /\ batch.pc = "idle"
    /\ batch.resp # None
    /\ gw' = [gw EXCEPT !.pc = "done", !.resp = Some(RouteAccepted(batch.resp[1]))]
    /\ UNCHANGED <<store, queue, enqueued, batch, ex, runs, net, applied>>

\* the answer does not arrive within service_timeout
GatewayReadTimeout ==
    /\ gw.pc = "wait"
    /\ gw' = AfterRaise(gw, ReadTimeout)
    /\ UNCHANGED <<store, queue, enqueued, batch, ex, runs, net, applied>>

\* the gateway's batch route in front of the blur service
NextGateway ==
    \/ GatewayBatchRequest(Photos, Users, 1..MaxBatch, MaxGatewayRequests)
    \/ GatewayFault
    \/ GatewayDeliver(MaxJobs)
    \/ BatchEnqueue
    \/ BatchReturn
    \/ GatewayResponse
    \/ GatewayReadTimeout

SpecGateway == Init /\ [][NextGateway]_vars

\* ------------------------------------------------------ gateway: job status
\* dict.get(key): the value, None when the key is missing or null
DictGet(d, key) == IF key \in DOMAIN d THEN d[key] ELSE None

\* get_photo: whatever the request raised becomes ResourceNotFoundError when
\* its text holds "404", AuthorizationError otherwise
GetPhotoRaises(exc) ==
    IF exc.status_code = 404
    THEN [type |-> "ResourceNotFoundError", status_code |-> 404]
    ELSE [type |-> "AuthorizationError", status_code |-> 403]

\* if processed_at or blur_score is not None: COMPLETED, else PENDING
JobStatusOf(photo_data) ==
    IF DictGet(photo_data, "processed_at") # None \/ DictGet(photo_data, "blur_score") # None
    THEN "completed" ELSE "pending"

\* BlurAnalysisJobResponse(...): created_at is a required datetime, so the
\* model is built only from a creation time that is there
JobResponseValid(created_at) == created_at # None

StatusAnswer(status_code, status) == [status_code |-> status_code, status |-> status]

\* get_job_status for the job id taken as photo id, when the request to the
\* photos service ends as net
GetJobStatus(st, job_id, user_id, n) ==
    LET meta == GetPhotoMeta(st, job_id, user_id)
    IN  IF n = "timeout"
        THEN StatusAnswer(GetPhotoRaises(RequestRaises(ReadTimeout)).status_code, None)
        ELSE IF meta.status # 200
        THEN StatusAnswer(GetPhotoRaises([type |-> "ServiceError",
                                          status_code |-> meta.status]).status_code, None)
        ELSE IF DictGet(meta.body[1], "user_id") # user_id THEN StatusAnswer(404, None)
        ELSE IF ~JobResponseValid(DictGet(meta.body[1], "google_created_time"))
        THEN StatusAnswer(500, None)
        ELSE StatusAnswer(200, Some(JobStatusOf(meta.body[1])))

\* GET /blur/jobs/{job_id} is asked and answered
GatewayJobStatus(PhotoSet, UserSet, NetSet) ==
    /\ gw.pc \in {"idle", "done"}
    /\ \E job_id \in PhotoSet, user_id \in UserSet, n \in NetSet :
         gw' = [gw EXCEPT !.pc = "done",
                          !.req = Some([job_id |-> job_id, user_id |-> user_id, net |-> n]),
                          !.resp = Some(GetJobStatus(store, job_id, user_id, n))]
    /\ UNCHANGED <<store, queue, enqueued, batch, ex, runs, net, applied>>

\* the queue pipeline, one photo a batch, while clients ask for job status
NextStatus ==
    \/ BatchRequest(PipelinePhotos, PipelineBatchUsers, PipelineBatchOptions, {1}, MaxJobs)
    \/ BatchEnqueue
    \/ BatchReturn
    \/ \E w \in Workers : Dequeue(w)
    \/ \E w \in Workers : Orchestrate(w, PipelineMeta, PipelineAnswers)
    \/ StoreUpdate
    \/ \E w \in Workers : PatchReturn(w)
    \/ \E w \in Workers : PatchTimeout(w)
    \/ GatewayJobStatus(Photos, Users, {"ok", "timeout"})

SpecStatus == Init /\ [][NextStatus]_vars

\* ------------------------------------------------------------------- claims
RunIds == 1..Len(runs)
WorkerRuns == {r \in RunIds : runs[r].job > 0}
AppliedBy(r) == {a \in 1..Len(applied) : applied[a].run = r}
AppliedTo(p) == {a \in 1..Len(applied) : applied[a].photo_id = p}
PreWriteStages == {"meta", "fetch", "decode", "score"}
FailedBeforeWrite(rs, r) ==
    r \in 1..Len(rs) /\ rs[r].outcome = "failed" /\ rs[r].stage \in PreWriteStages
SetMax(S) == CHOOSE x \in S : \A y \in S : y <= x
InUnit(score) == 0 <= score /\ score <= Scale

\* C1: a run that failed in the metadata fetch, the image fetch (403
\* included), the decode or the scoring never built or sent an update: no
\* PATCH of it is in flight and none was applied; and the step in which such
\* a run fails leaves every photo record as it was.
C1_FailedRunLeavesStore ==
    /\ [](\A r \in RunIds :
            FailedBeforeWrite(runs, r) =>
                /\ runs[r].payload = None
                /\ \A i \in 1..Len(runs[r].calls) : runs[r].calls[i] # "patch"
                /\ \A m \in net : m.run # r
                /\ AppliedBy(r) = {})
    /\ [][\A r \in 1..Len(runs') :
            (FailedBeforeWrite(runs', r) /\ ~FailedBeforeWrite(runs, r)) => store' = store]_vars

\* a synchronous request answered 403 by the image fetch after a queued task
\* had analysed the photo: the record still holds the task's result
C1_Witness ==
    \E r \in SyncRuns :
        /\ runs[r].outcome = "failed" /\ runs[r].stage = "fetch"
        /\ runs[r].exc[1].status = 403
        /\ Len(applied) = 1 /\ applied[1].run < r
        /\ store[runs[r].photo_id].blur_score
              = ColumnValue("blur_score", applied[1].updates.blur_score)

\* the failure kinds of the error taxonomy
ErrorKind(exc) ==
    IF exc.type = "Timeout" THEN "Timeout"
    ELSE IF exc.type = "ConnectionError" THEN "NetworkUnavailable"
    ELSE IF exc.type \in {"ValueError", "cv2.error"} THEN "InvalidContent"
    ELSE IF exc.type = "TypeError" THEN "InternalScoringError"
    ELSE IF exc.status = 404 THEN "NotFound"
    ELSE IF exc.status = 403 THEN "AccessExpired"
    ELSE IF exc.status = 400 THEN "InvalidContent"
    ELSE IF exc.status = 408 THEN "Timeout"
    ELSE IF exc.status = 503 THEN "NetworkUnavailable"
    ELSE "UpstreamError"

\* C2: the failure a synchronous caller receives is of the kind the failing
\* step raised (NotFound, AccessExpired, InvalidContent, Timeout,
\* NetworkUnavailable, UpstreamError).
C2_TypedFailureReachesCaller ==
    \A r \in SyncRuns :
        runs[r].outcome = "failed" =>
            ErrorKind(runs[r].response[1]) = ErrorKind(runs[r].exc[1])

C4_StrictThreshold ==
    \A r \in RunIds :
        /\ runs[r].result # None =>
             runs[r].result[1].is_blurred
                = (runs[r].result[1].blur_score > runs[r].opts.threshold[1])
        /\ runs[r].payload # None =>
             runs[r].payload[1].is_blurred[1]
                = (runs[r].payload[1].blur_score[1] > runs[r].opts.threshold[1])

\* a score equal to the threshold was returned and written as not blurred
C4_Witness ==
    \E r \in RunIds :
        /\ runs[r].outcome = "ok"
        /\ runs[r].result[1].blur_score = runs[r].opts.threshold[1]
        /\ ~runs[r].result[1].is_blurred
        /\ AppliedBy(r) # {}
        /\ store[runs[r].photo_id].is_blurred = Some(FALSE)

\* the batch request whose handler has returned
BatchDone == batch.pc = "idle" /\ batch.resp # None

\* C5: when submit_batch returns for a list of n photo ids, exactly n tasks
\* were enqueued by it, the i-th for the i-th id, each with the request's
\* user id and options, each a task of its own (repeated ids included), none
\* lost; and the count returned is n.
C5_BatchEnqueuesOnePerId ==
    /\ \A i, j \in 1..Len(enqueued) : i # j => enqueued[i].job # enqueued[j].job
    /\ batch.pc = "loop" => Len(enqueued) = batch.base + batch.i - 1
    /\ BatchDone =>
         LET req == batch.req[1]
             n == Len(req.photo_ids)
         IN  /\ Len(enqueued) = batch.base + n
             /\ batch.resp[1].count = n
             /\ \A i \in 1..n :
                  LET t == enqueued[batch.base + i]
                  IN  /\ t.photo_id = req.photo_ids[i]
                      /\ t.user_id = req.user_id
                      /\ t.opts = req.opts
                      /\ \/ \E k \in 1..Len(queue) : queue[k] = t
                         \/ \E r \in WorkerRuns : runs[r].job = t.job

\* a batch of three ids by user u2, the first and the third the same photo
C5_Witness ==
    /\ BatchDone
    /\ batch.resp[1].count = 3
    /\ batch.req[1].user_id = "u2"
    /\ batch.req[1].photo_ids[1] = batch.req[1].photo_ids[3]
    /\ batch.req[1].photo_ids[1] # batch.req[1].photo_ids[2]
    /\ Len(queue) >= 1

\* C6: every enqueued task is handed to at most one worker and run at most
\* once: no two runs are of the same task, no two workers hold the same
\* task, and a task that was dequeued is not in the queue.
C6_AtMostOnceDelivery ==
    /\ \A r1, r2 \in WorkerRuns : r1 # r2 => runs[r1].job # runs[r2].job
    /\ \A w1, w2 \in Workers :
         (w1 # w2 /\ ex[w1] # 0 /\ ex[w2] # 0) => runs[ex[w1]].job # runs[ex[w2]].job
    /\ \A k \in 1..Len(queue) : \A r \in WorkerRuns : runs[r].job # queue[k].job

\* both workers are running, each its own task, while a third task waits
C6_Witness ==
    /\ \A w \in Workers : ex[w] # 0
    /\ Len(queue) = 1

\* what holds of every worker run that raised: the task is gone from the
\* queue, it was delivered once, no call of the run was repeated, and the
\* worker no longer holds it
FailedTaskDropped(r) ==
    /\ \A k \in 1..Len(queue) : queue[k].job # runs[r].job
    /\ \A r2 \in WorkerRuns : r2 # r => runs[r2].job # runs[r].job
    /\ \A i, j \in 1..Len(runs[r].calls) : i # j => runs[r].calls[i] # runs[r].calls[j]
    /\ ex[runs[r].by] # r

NonNullUpdate(u) ==
    u.blur_score # None /\ u.is_blurred # None /\ u.processed_at # None

\* C8: every update the analysis builds, sends or gets applied carries a
\* blur_score, an is_blurred and a processed_at, and a record that holds a
\* score and a timestamp holds them after every step.
C8_AnalysedNeverReverts ==
    /\ [](/\ \A r \in RunIds : runs[r].payload # None => NonNullUpdate(runs[r].payload[1])
          /\ \A m \in net : NonNullUpdate(m.updates)
          /\ \A a \in 1..Len(applied) : NonNullUpdate(applied[a].updates))
    /\ [][\A p \in Photos :
            (store[p].blur_score # None /\ store[p].processed_at # None)
                => (store'[p].blur_score # None /\ store'[p].processed_at # None)]_vars

\* a second write-back was applied to a record that was already analysed
C8_Witness ==
    /\ Len(applied) = 2
    /\ applied[2].before.blur_score # None
    /\ store[applied[2].photo_id].blur_score # None
    /\ store[applied[2].photo_id].processed_at # None

\* C9: every write-back for a photo of the requesting user is accepted
\* whatever the record holds, and the record shows the update that was
\* applied last.
C9_LastWriterWins ==
    /\ \A r \in RunIds : runs[r].patch_status \in {None, Some(200)}
    /\ \A p \in Photos :
         AppliedTo(p) # {} =>
            LET last == applied[SetMax(AppliedTo(p))].updates
            IN  /\ store[p].blur_score = ColumnValue("blur_score", last.blur_score)
                /\ store[p].is_blurred = last.is_blurred
                /\ store[p].processed_at = last.processed_at

\* two runs of the same photo with different scores, both answered 200; the
\* run that started later was applied first, so the record shows the score
\* of the run that started first
C9_Witness ==
    /\ Len(applied) = 2
    /\ applied[1].photo_id = applied[2].photo_id
    /\ applied[1].run > applied[2].run
    /\ applied[1].updates.blur_score # applied[2].updates.blur_score
    /\ \A a \in 1..2 : runs[applied[a].run].outcome = "ok"
    /\ store[applied[1].photo_id].blur_score
          = ColumnValue("blur_score", applied[2].updates.blur_score)

\* C10: the tasks of a batch are all in the queue or delivered, one per list
\* element even when the photo is the same, and a task that succeeded has
\* exactly one write-back applied: when all k tasks of a photo succeeded the
\* record got k write-backs from them.
C10_OneWritePerTask ==
    /\ \A j \in 1..Len(enqueued) :
         /\ enqueued[j].job = j
         /\ \/ \E k \in 1..Len(queue) : queue[k].job = j
            \/ \E r \in WorkerRuns : runs[r].job = j
    /\ \A r \in WorkerRuns :
         runs[r].outcome = "ok" => Cardinality(AppliedBy(r)) = 1
    /\ \A p \in Photos :
         LET tasks == {j \in 1..Len(enqueued) : enqueued[j].photo_id = p}
             done == {r \in WorkerRuns : runs[r].photo_id = p /\ runs[r].outcome = "ok"}
         IN  Cardinality(done) = Cardinality(tasks) =>
                Cardinality({a \in AppliedTo(p) : applied[a].run \in done})
                    = Cardinality(tasks)

\* one batch named the same photo three times, its three tasks succeeded and
\* three write-backs were applied to the photo's record
C10_Witness ==
    /\ BatchDone
    /\ Len(batch.req[1].photo_ids) = 3
    /\ \A i \in 1..3 : batch.req[1].photo_ids[i] = batch.req[1].photo_ids[1]
    /\ Cardinality({r \in WorkerRuns : runs[r].outcome = "ok"}) = 3
    /\ Cardinality(AppliedTo(batch.req[1].photo_ids[1])) = 3

\* C11: tasks leave the queue in the order they were enqueued, within a
\* batch and across batches: the queue holds the tasks oldest first, every
\* task a worker has taken was enqueued before every task still waiting, and
\* the workers' runs started in enqueue order.
C11_FifoOrder ==
    /\ \A i, j \in 1..Len(queue) : i < j => queue[i].job < queue[j].job
    /\ \A r \in WorkerRuns : \A k \in 1..Len(queue) : runs[r].job < queue[k].job
    /\ \A r1, r2 \in WorkerRuns : r1 < r2 => runs[r1].job < runs[r2].job

\* tasks of two batches: the first batch's task was taken by a worker, then a
\* task of the second, and a later one is still waiting
C11_Witness ==
    /\ batch.base > 0
    /\ Cardinality(WorkerRuns) = 2
    /\ Len(queue) = 1
    /\ \E r \in WorkerRuns : runs[r].job <= batch.base
    /\ \E r \in WorkerRuns : runs[r].job > batch.base

\* C12: the batch handler never waits for the workers: while it runs, its
\* next step (enqueue the next id, or return) is enabled whatever the queue
\* holds and whatever the workers do, and a new request is taken whenever
\* the event loop is free; every enqueue makes the queue one
\* longer, however long it is (no admission control); and the handler's own
\* steps never move a worker.
C12_SubmitNeverWaits ==
    /\ []((LoopFree /\ Len(enqueued) < MaxJobs)
            => ENABLED BatchRequest(Photos, Users, SubmitOptions, {1}, MaxJobs))
    /\ [](batch.pc = "loop" => ENABLED (BatchEnqueue \/ BatchReturn))
    /\ [][(batch.pc = "loop" /\ batch'.pc = "loop" /\ batch'.i = batch.i + 1)
            => (Len(queue') = Len(queue) + 1 /\ ex' = ex /\ runs' = runs)]_vars
    /\ [][(batch.pc = "loop" /\ batch'.pc = "idle")
            => (queue' = queue /\ ex' = ex /\ runs' = runs)]_vars

\* the handler returned a batch of three while no task had been dequeued:
\* all three, and nothing else, wait in the queue
C12_Witness ==
    /\ BatchDone
    /\ Len(batch.req[1].photo_ids) = 3
    /\ runs = <<>>
    /\ Len(queue) = 3
    /\ \A w \in Workers : ex[w] = 0

\* the grayscale region a run's analysis measures: the crop of the largest
\* face when faces are asked for and found, the whole image otherwise
Measured(r) ==
    LET img == runs[r].bytes[1].img
    IN  IF runs[r].opts.use_face_detection = Some(TRUE) /\ img.boxes # <<>>
        THEN img.roi ELSE img.full
Scored(r) == runs[r].result # None

\* C13: an analysis that asked for face detection on an image in which the
\* detector finds no face returns the score and the flag of the analysis of
\* the whole image, which is what the same request without face detection
\* returns.
C13_NoFaceSameAsFullImage ==
    \A r \in RunIds :
        (/\ runs[r].bytes # None /\ runs[r].bytes[1].kind = "image"
         /\ runs[r].bytes[1].img.boxes = <<>> /\ ~runs[r].bytes[1].img.det_raises
         /\ runs[r].opts.use_face_detection = Some(TRUE)
         /\ runs[r].pc # "analyze")
        => LET whole == AnalyzeRegion(runs[r].bytes[1].img.full, runs[r].opts.threshold,
                                      runs[r].opts.method)
           IN  /\ Scored(r) = whole.ok
               /\ Scored(r) =>
                    /\ runs[r].result[1].blur_score = whole.blur_score
                    /\ runs[r].result[1].is_blurred = whole.is_blurred

\* face detection was asked for, no face was found, and the hybrid score of
\* the whole image, neither 0 nor 1, classified the image as blurred
C13_Witness ==
    \E r \in RunIds :
        /\ Scored(r) /\ runs[r].opts.use_face_detection = Some(TRUE)
        /\ runs[r].bytes[1].img.boxes = <<>>
        /\ runs[r].opts.method = "hybrid"
        /\ runs[r].result[1].blur_score \in 1..(Scale - 1)
        /\ runs[r].result[1].is_blurred

\* C14: the hybrid score is the mean of L = 1/(1 + variance/100) and of the
\* value F of _fft_blur_score on the same region (twice the score is L + F,
\* up to the last digit of the fixed-point division).
C14_HybridIsMean ==
    \A r \in RunIds :
        (Scored(r) /\ runs[r].opts.method = "hybrid") =>
            LET g == Measured(r)
                L == (Scale * 100) \div (100 + g.lapvar)
                F == FftBlurScore(g)
            IN  2 * runs[r].result[1].blur_score \in {L + F - 1, L + F}

\* variance 60 gives L = 0.625, a high-frequency ratio of 0.3 gives F = 0.4,
\* and the hybrid score is 0.5125
C14_Witness ==
    \E r \in RunIds :
        /\ Scored(r) /\ runs[r].opts.method = "hybrid"
        /\ Measured(r).lapvar = 60 /\ Measured(r).hf = 300 /\ Measured(r).tot = 1000
        /\ runs[r].result[1].blur_score = 51250

\* C15: on a region of Laplacian variance v > 0 the score of method
\* laplacian (K = 40) is below 1/(1 + v/100) and the Laplacian term of the
\* hybrid score (K = 100) is above 1/(1 + v/40); at v = 0 both are 1.
C15_LaplacianConstantsDiffer ==
    \A r \in RunIds :
        Scored(r) =>
            LET g == Measured(r)
                score == runs[r].result[1].blur_score
                term == 2 * score - FftBlurScore(g)
            IN  /\ (runs[r].opts.method = "laplacian" /\ g.lapvar > 0) =>
                     score < (Scale * 100) \div (100 + g.lapvar)
                /\ (runs[r].opts.method = "hybrid" /\ g.lapvar > 0) =>
                     term > (Scale * 40) \div (40 + g.lapvar)
                /\ (runs[r].opts.method = "laplacian" /\ g.lapvar = 0) => score = Scale
                /\ (runs[r].opts.method = "hybrid" /\ g.lapvar = 0) =>
                     term \in {Scale - 1, Scale}

\* variance 360: the standalone score is 0.1, the hybrid's term is 0.2174
C15_Witness ==
    \E r \in RunIds :
        /\ Scored(r) /\ runs[r].opts.method = "laplacian"
        /\ Measured(r).lapvar = 360
        /\ runs[r].result[1].blur_score = 10000
        /\ LaplacianScore(360, HybridLaplacianK) > 20000

\* C16: with a method string that is none of laplacian, fft and hybrid the
\* score is the clamped mean of the multi-scale blur map over 255, and when
\* that measurement raises it is the Laplacian score with K = 40; the
\* measurement's exception never ends the run, and the flag is the strict
\* comparison of the score with the threshold.
C16_FallbackPath ==
    \A r \in RunIds :
        (/\ runs[r].bytes # None /\ runs[r].bytes[1].kind = "image"
         /\ runs[r].opts.method \notin {"laplacian", "fft", "hybrid"}
         /\ runs[r].pc # "analyze")
        => LET g == Measured(r)
               faces == runs[r].opts.use_face_detection = Some(TRUE)
           IN  /\ (runs[r].opts.threshold # None
                     /\ ~(faces /\ runs[r].bytes[1].img.det_raises)) => Scored(r)
               /\ Scored(r) =>
                    LET score == runs[r].result[1].blur_score
                        mean == (g.bd.mean * Scale) \div 255
                    IN  /\ g.bd.raises => score = (Scale * 40) \div (40 + g.lapvar)
                        /\ (~g.bd.raises /\ g.bd.nan) => score = Scale
                        /\ (~g.bd.raises /\ ~g.bd.nan) =>
                             score = (IF mean < 0 THEN 0 ELSE IF mean > Scale THEN Scale
                                      ELSE mean)
                        /\ runs[r].result[1].is_blurred
                             = (score > runs[r].opts.threshold[1])

\* the multi-scale measurement raised on a region of variance 60: the run
\* succeeded with the Laplacian score 0.4, above the threshold 0.3
C16_Witness ==
    \E r \in RunIds :
        /\ runs[r].outcome = "ok" /\ runs[r].opts.method = "other"
        /\ Measured(r).bd.raises /\ Measured(r).lapvar = 60
        /\ runs[r].result[1].blur_score = 40000
        /\ runs[r].opts.threshold = Some(DefaultThreshold)
        /\ runs[r].result[1].is_blurred

\* the failure kind the error taxonomy gives an answer of the photo proxy,
\* "ok" when the answer carries an image
AnswerKind(a) ==
    IF a.net = "timeout" THEN "Timeout"
    ELSE IF a.net = "conn" THEN "NetworkUnavailable"
    ELSE IF a.status = 404 THEN "NotFound"
    ELSE IF a.status = 403 THEN "AccessExpired"
    ELSE IF a.status # 200 THEN "UpstreamError"
    ELSE IF ~a.image_type \/ a.body.kind = "empty" THEN "InvalidContent"
    ELSE "ok"

\* C17: in both copies of the image fetch the answer decides the outcome:
\* the failure raised is of the answer's kind, and bytes are returned only
\* for a 200 answer with an image content type and a non-empty body.
C17_FetchClassifiesAnswer ==
    \A r \in RunIds :
        runs[r].answer # None =>
            IF runs[r].bytes = None
            THEN /\ runs[r].stage = "fetch"
                 /\ ErrorKind(runs[r].exc[1]) = AnswerKind(runs[r].answer[1])
            ELSE /\ AnswerKind(runs[r].answer[1]) = "ok"
                 /\ runs[r].bytes = Some(runs[r].answer[1].body)

\* the unhandled update request that a step handles
Handled(m) == m \in net /\ net' = net \ {m}

\* the columns of the photos table a request body names
NamedColumns(m) == DOMAIN m.updates \cap DOMAIN store[m.photo_id]

\* what every handled update request does, given the columns of the matching
\* record that it may change besides the ones it names
PartialUpdate(m, also) ==
    IF FindPhoto(store, m.photo_id, m.user_id)
    THEN /\ \A p \in Photos \ {m.photo_id} : store'[p] = store[p]
         /\ \A f \in DOMAIN store[m.photo_id] \ (NamedColumns(m) \cup also) :
              store'[m.photo_id][f] = store[m.photo_id][f]
         /\ runs'[m.run].patch_status = Some(200) =>
              \A f \in NamedColumns(m) :
                  store'[m.photo_id][f] = ColumnValue(f, m.updates[f])
         /\ runs'[m.run].patch_status # Some(200) => store' = store
    ELSE /\ store' = store
         /\ runs'[m.run].patch_status = Some(404)

\* C18 as claimed: an update request changes only the columns it names, on
\* the one record matching photo id and user id; every other column and
\* record stays, and without a matching record it is answered 404 and
\* changes nothing.
C18_OnlyNamedColumnsChange ==
    [][\A m \in net : Handled(m) => PartialUpdate(m, {})]_vars

\* C18 amended: as claimed, except that the matching record's updated_at is
\* refreshed as well when the update changes the record.
C18_PartialUpdate ==
    [][\A m \in net : Handled(m) => PartialUpdate(m, {"updated_at"})]_vars

\* a tag was written to a record that holds an analysis result, which is
\* still there, and a request of the user who does not own the photo was
\* answered 404
C18_Witness ==
    \E p \in Photos :
        /\ store[p].tag # None /\ store[p].tagged_at # None
        /\ store[p].blur_score = Some(15870) /\ store[p].is_blurred = Some(FALSE)
        /\ store[p].updated_at = 2
        /\ \E r \in RunIds : /\ runs[r].photo_id = p
                             /\ runs[r].user_id # store[p].user_id
                             /\ runs[r].patch_status = Some(404)


\* C19: a gateway request that failed with a timeout or a network error is
\* tried again, so ServiceUnavailableError reaches the caller of _request only
\* after the third failed attempt.
C19_UnavailableAfterThirdAttempt ==
    (gw.raised # None /\ gw.raised[1].type = "ServiceUnavailableError")
        => gw.attempts = StopAfterAttempt

\* C20: when the blur service accepted the gateway's batch of n photo ids, the
\* gateway's response lists n jobs, each pending, and its total is n.
C20_OneJobPerPhoto ==
    (gw.pc = "done" /\ gw.resp # None /\ gw.resp[1].status_code = 202) =>
        LET n == Len(gw.req[1].photo_ids)
            r == gw.resp[1]
        IN  /\ Len(r.jobs) = n
            /\ \A i \in 1..Len(r.jobs) : r.jobs[i].status = "pending"
            /\ r.total = n

\* variances at which the Laplacian score is compared
VarianceSamples == {0, 1, 59, 60, 61, 359, 360, 361, 1000}

\* C21: on a region of Laplacian variance 0 method laplacian scores 1.0 and
\* the image is blurred at threshold 0.30 and at every threshold below 1;
\* the laplacian score is strictly decreasing in the variance: a smaller
\* variance scores higher and a larger one scores lower.
C21_FlatIsBlurred ==
    \A r \in RunIds :
        (Scored(r) /\ runs[r].opts.method = "laplacian") =>
            LET g == Measured(r)
                score == runs[r].result[1].blur_score
                threshold == runs[r].opts.threshold[1]
            IN  /\ g.lapvar = 0 =>
                     /\ score = Scale
                     /\ threshold < Scale => runs[r].result[1].is_blurred
                     /\ threshold = DefaultThreshold => runs[r].result[1].is_blurred
                /\ \A v \in VarianceSamples :
                     /\ v < g.lapvar => Clamp(RawScore([g EXCEPT !.lapvar = v], "laplacian")) > score
                     /\ v > g.lapvar => Clamp(RawScore([g EXCEPT !.lapvar = v], "laplacian")) < score

\* a flat image without faces was scored 1.0 by method laplacian and stored
\* as blurred at threshold 0.30
C21_Witness ==
    \E r \in RunIds :
        /\ runs[r].outcome = "ok" /\ runs[r].opts.method = "laplacian"
        /\ Measured(r).lapvar = 0
        /\ runs[r].opts.threshold = Some(DefaultThreshold)
        /\ runs[r].result[1].blur_score = Scale
        /\ runs[r].result[1].is_blurred
        /\ store[runs[r].photo_id].is_blurred = Some(TRUE)

\* the collaborator calls of a run, in the order the code issues them
CallOrder == <<"get_meta", "get_image", "patch">>

\* the runs of analyze_single_photo, synchronous or queued
AnalysisRuns == {r \in RunIds : runs[r].job >= 0}

\* C22: the collaborator calls of a run are a prefix of metadata fetch,
\* image fetch, write-back, each issued at most once; the image fetch is
\* issued only after the metadata arrived, the write-back only after the
\* image arrived and was scored; a successful run issued all three and its
\* one write-back was applied once.
C22_SequentialCalls ==
    \A r \in AnalysisRuns :
        LET c == runs[r].calls IN
        /\ Len(c) <= Len(CallOrder)
        /\ c = SubSeq(CallOrder, 1, Len(c))
        /\ Len(c) >= 2 => runs[r].meta # None
        /\ Len(c) >= 3 => runs[r].bytes # None /\ runs[r].result # None
        /\ Len(c) < 3 => runs[r].payload = None
        /\ Cardinality({m \in net : m.run = r}) + Cardinality(AppliedBy(r)) <= 1
        /\ runs[r].outcome = "ok" =>
             /\ c = CallOrder
             /\ Cardinality(AppliedBy(r)) = 1
             /\ \A m \in net : m.run # r

\* one run succeeded with its three calls and one write, and another run
\* stopped after the image fetch failed
C22_Witness ==
    \E r, q \in AnalysisRuns :
        /\ runs[r].outcome = "ok" /\ runs[r].calls = CallOrder
        /\ Cardinality(AppliedBy(r)) = 1
        /\ runs[q].outcome = "failed" /\ runs[q].stage = "fetch"
        /\ runs[q].calls = <<"get_meta", "get_image">>

\* how often fn was called in a trace
Count(t, fn) == Cardinality({i \in 1..Len(t) : t[i].fn = fn})

\* the runs whose image was decoded, so that _analyze_blur was called
Analysed(r) ==
    runs[r].bytes # None /\ runs[r].bytes[1].kind = "image" /\ runs[r].pc # "analyze"

\* C23: in one call of _analyze_blur with use_face_detection true the face
\* detector runs exactly once; the nested _analyze_blur, on the face crop or
\* on the whole image, runs with face detection off; the nesting is at most
\* _analyze_blur -> _analyze_face_blur -> _analyze_blur, so the analysis ends
\* after one substitution.
C23_SingleSubstitution ==
    \A r \in AnalysisRuns :
        Analysed(r) =>
            LET t == runs[r].trace
                img == runs[r].bytes[1].img
                faces == runs[r].opts.use_face_detection = Some(TRUE)
            IN  /\ t # <<>> /\ t[1] = Call("_analyze_blur", faces, <<>>)
                /\ Count(t, "_detect_faces") = (IF faces THEN 1 ELSE 0)
                /\ Count(t, "_analyze_face_blur") <= 1
                /\ Count(t, "_analyze_blur") <= 2
                /\ \A i \in 2..Len(t) : t[i].fn = "_analyze_blur" => ~t[i].faces
                /\ (faces /\ ~img.det_raises /\ img.boxes # <<>>) =>
                     /\ Len(t) = 5
                     /\ t[2].fn = "_detect_faces" /\ t[3].fn = "_analyze_face_blur"
                     /\ t[4].fn = "_get_face_roi"
                     /\ t[5] = Call("_analyze_blur", FALSE, <<>>)
                /\ (~faces \/ img.boxes = <<>>) => Count(t, "_analyze_blur") = 1

\* a face was found: the detector ran once and the crop of the face was
\* analysed by a nested call with face detection off, whose score was stored
C23_Witness ==
    \E r \in AnalysisRuns :
        /\ runs[r].outcome = "ok" /\ runs[r].opts.use_face_detection = Some(TRUE)
        /\ runs[r].bytes[1].img.boxes # <<>>
        /\ Len(runs[r].trace) = 5
        /\ runs[r].trace[5] = Call("_analyze_blur", FALSE, <<>>)
        /\ Count(runs[r].trace, "_detect_faces") = 1
        /\ runs[r].bytes[1].img.roi # runs[r].bytes[1].img.full
        /\ store[runs[r].photo_id].blur_score # None

\* how often the box b occurs in the list s
Occurs(s, b) == Cardinality({i \in 1..Len(s) : s[i] = b})

\* the box _get_face_roi was called with in the run r
SelectedBox(r) ==
    LET t == runs[r].trace
    IN  t[CHOOSE i \in 1..Len(t) : t[i].fn = "_get_face_roi"].box

\* the runs that looked for faces and found some
FacesFound(r) ==
    /\ Analysed(r) /\ runs[r].opts.use_face_detection = Some(TRUE)
    /\ ~runs[r].bytes[1].img.det_raises /\ runs[r].bytes[1].img.boxes # <<>>

\* C24: for a non-empty list of detected boxes _detect_faces returns the
\* same boxes, by width * height descending, and the box whose crop is
\* analysed is the first of them: no detected box has a larger area.
C24_LargestFaceFirst ==
    \A r \in AnalysisRuns :
        FacesFound(r) =>
            LET boxes == runs[r].bytes[1].img.boxes
                faces == DetectFaces(runs[r].bytes[1].img)
            IN  /\ Len(faces) = Len(boxes)
                /\ \A k \in 1..Len(boxes) : Occurs(faces, boxes[k]) = Occurs(boxes, boxes[k])
                /\ \A i, j \in 1..Len(faces) : i < j => Area(faces[i]) >= Area(faces[j])
                /\ Count(runs[r].trace, "_get_face_roi") = 1
                /\ SelectedBox(r) = faces[1]
                /\ \A k \in 1..Len(boxes) : Area(boxes[k]) <= Area(SelectedBox(r))

\* three faces were detected, the largest of them last, and two of equal
\* area before it: the largest one was cropped
C24_Witness ==
    \E r \in AnalysisRuns :
        /\ FacesFound(r) /\ runs[r].outcome = "ok"
        /\ Len(runs[r].bytes[1].img.boxes) = 3
        /\ Area(runs[r].bytes[1].img.boxes[1]) = Area(runs[r].bytes[1].img.boxes[2])
        /\ Area(runs[r].bytes[1].img.boxes[3]) > Area(runs[r].bytes[1].img.boxes[1])
        /\ SelectedBox(r) = runs[r].bytes[1].img.boxes[3]

\* what the claim says of the crop roi of the box b in an image w wide, h high
RoiContract(w, h, b, roi) ==
    LET expand_w == (3 * b[3]) \div 10
        expand_h == (3 * b[4]) \div 10
    IN  /\ roi[1] = (IF b[1] - expand_w < 0 THEN 0 ELSE b[1] - expand_w)
        /\ roi[2] = (IF b[2] - expand_h < 0 THEN 0 ELSE b[2] - expand_h)
        /\ roi[3] = (IF b[1] + b[3] + expand_w > w THEN w ELSE b[1] + b[3] + expand_w)
        /\ roi[4] = (IF b[2] + b[4] + expand_h > h THEN h ELSE b[2] + b[4] + expand_h)
        /\ 0 <= roi[1] /\ roi[1] <= b[1]
        /\ b[1] + b[3] <= roi[3] /\ roi[3] <= w
        /\ 0 <= roi[2] /\ roi[2] <= b[2]
        /\ b[2] + b[4] <= roi[4] /\ roi[4] <= h
        /\ roi[1] < roi[3] /\ roi[2] < roi[4]

\* every box of at least one pixel inside a small image
SmallSizes == { <<1, 1>>, <<7, 4>> }
BoxesInside(size) ==
    { <<x, y, w, h>> : x \in 0..(size[1] - 1), y \in 0..(size[2] - 1),
                       w \in 1..size[1], h \in 1..size[2] }
SmallBoxes(size) ==
    { b \in BoxesInside(size) : b[1] + b[3] <= size[1] /\ b[2] + b[4] <= size[2] }

\* C25: for a face box inside the image with w, h >= 1 the crop of
\* _get_face_roi is the box extended by floor(0.30 * w) columns and
\* floor(0.30 * h) rows on each side and clamped to the image: it stays
\* inside the image, contains the box and is not empty, so the analysis of
\* a found face always measures the crop.
C25_CropInsideImage ==
    \A r \in AnalysisRuns :
        FacesFound(r) =>
            LET img == runs[r].bytes[1].img
                b == SelectedBox(r)
            IN  /\ RoiContract(img.w, img.h, b, GetFaceRoi(img, b))
                /\ ~RoiEmpty(GetFaceRoi(img, b))
                /\ runs[r].trace[Len(runs[r].trace)] = Call("_analyze_blur", FALSE, <<>>)
                /\ \A size \in SmallSizes : \A sb \in SmallBoxes(size) :
                     RoiContract(size[1], size[2], sb,
                                 GetFaceRoi([img EXCEPT !.w = size[1], !.h = size[2]], sb))

\* the face at the right border of the image, as high as the image: the crop
\* grew by 18 columns to the left and was cut off at the other three borders
C25_Witness ==
    \E r \in AnalysisRuns :
        /\ FacesFound(r) /\ runs[r].outcome = "ok"
        /\ runs[r].bytes[1].img.w = 200 /\ runs[r].bytes[1].img.h = 100
        /\ SelectedBox(r) = <<140, 0, 60, 100>>
        /\ GetFaceRoi(runs[r].bytes[1].img, SelectedBox(r)) = <<122, 0, 200, 100>>

\* the run r as the other copy of analyze_single_photo takes it from the
\* same metadata and the same answer of the image request up to the moment
\* its update is on the way
Twin(r) ==
    LET run == runs[r]
        start == [NewRun(run.by, IF run.job = 0 THEN 1 ELSE 0, run.photo_id,
                         run.user_id, run.opts)
                    EXCEPT !.pc = "fetch", !.calls = <<"get_meta">>, !.meta = run.meta]
        afterFetch == FetchStep(start, run.answer[1])
    IN  IF afterFetch.pc = "done" THEN afterFetch
        ELSE DetectStep(afterFetch, ClockReading(r, 1), ClockReading(r, 1))

\* both copies issued the same calls, and either both failed before the
\* write-back or both sent the same blur_score and is_blurred
SameAsTwin(r) ==
    LET run == runs[r]
        twin == Twin(r)
    IN  /\ twin.calls = run.calls
        /\ (twin.outcome = "failed") = FailedBeforeWrite(runs, r)
        /\ (twin.payload = None) = (run.payload = None)
        /\ run.payload # None =>
             /\ twin.payload[1].blur_score = run.payload[1].blur_score
             /\ twin.payload[1].is_blurred = run.payload[1].is_blurred

\* a successful run wrote the score and the flag it sent, once
WroteItsUpdate(r) ==
    /\ Cardinality(AppliedBy(r)) = 1
    /\ \A a \in AppliedBy(r) :
         /\ applied[a].updates.blur_score = runs[r].payload[1].blur_score
         /\ applied[a].updates.is_blurred = runs[r].payload[1].is_blurred

\* C26 as claimed: for the same photo, options and collaborator responses
\* the synchronous endpoint and the worker task issue the same calls and end
\* the same way: success with the same blur_score and is_blurred written, or
\* failure with no write.
C26_SameOutcomeNoWrite ==
    \A r \in AnalysisRuns :
        /\ runs[r].answer # None => SameAsTwin(r)
        /\ runs[r].outcome = "ok" => WroteItsUpdate(r)
        /\ runs[r].outcome = "failed" => AppliedBy(r) = {}

\* C26 amended: as claimed, except that a run that failed because the answer
\* to its write-back did not arrive within the timeout may have its update
\* applied; that holds for both copies alike, and a run that failed before
\* the write-back wrote nothing.
C26_SameOrchestrator ==
    \A r \in AnalysisRuns :
        /\ runs[r].answer # None => SameAsTwin(r)
        /\ runs[r].outcome = "ok" => WroteItsUpdate(r)
        /\ FailedBeforeWrite(runs, r) =>
             AppliedBy(r) = {} /\ \A m \in net : m.run # r

\* the image request was answered with an empty body: the worker task failed
\* decoding it where the synchronous endpoint fails in the fetch, both after
\* the same two calls and without a write
C26_Witness ==
    \E r \in WorkerRuns :
        /\ runs[r].answer # None /\ runs[r].answer[1].net = "ok"
        /\ runs[r].answer[1].status = 200 /\ runs[r].answer[1].image_type
        /\ runs[r].answer[1].body.kind = "empty"
        /\ runs[r].outcome = "failed" /\ runs[r].stage = "decode"
        /\ Twin(r).outcome = "failed" /\ Twin(r).stage = "fetch"
        /\ runs[r].calls = <<"get_meta", "get_image">>
        /\ applied = <<>>

\* C27: the job status the gateway reports for a photo comes from the photo
\* record alone: a status request of the photo's owner that reached the photos
\* service is answered with 'completed' when the record has a processed_at or
\* a blur_score and with 'pending' otherwise.
C27_StatusFromRecord ==
    [][(gw' # gw /\ gw'.req[1].net = "ok"
          /\ FindPhoto(store, gw'.req[1].job_id, gw'.req[1].user_id))
       => LET row == store[gw'.req[1].job_id]
          IN  /\ gw'.resp[1].status_code = 200
              /\ gw'.resp[1].status
                   = Some(IF row.processed_at # None \/ row.blur_score # None
                          THEN "completed" ELSE "pending")]_vars

\* the task with job number j was taken off the queue and its run is over
Finished(j) == \E r \in RunIds : runs[r].job = j /\ runs[r].pc = "done"

\* C28: with one worker scheduled fairly and every collaborator call
\* answered or timed out, every enqueued task is eventually dequeued and
\* finished, and in the end the queue is empty for good with no task in
\* flight; a finished task's run either succeeded with its write-back applied
\* or failed, and a finished task is never in the queue again.
C28_EveryTaskFinishes ==
    /\ \A j \in 1..MaxLiveJobs : (Len(enqueued) >= j) ~> Finished(j)
    /\ <>[](queue = <<>> /\ \A w \in Workers : ex[w] = 0)
    /\ [](\A r \in WorkerRuns :
            runs[r].pc = "done" =>
                /\ runs[r].outcome = "ok" => AppliedBy(r) # {}
                /\ runs[r].outcome \in {"ok", "failed"}
                /\ \A i \in 1..Len(queue) : queue[i].job # runs[r].job)

\* two tasks were enqueued and both are finished, one with its result
\* written and one dropped after its image fetch failed; the queue is empty
\* and the workers are idle
C28_Witness ==
    /\ Len(enqueued) >= 2 /\ queue = <<>> /\ \A w \in Workers : ex[w] = 0
    /\ \A j \in 1..Len(enqueued) : Finished(j)
    /\ \E r \in WorkerRuns : runs[r].outcome = "ok" /\ AppliedBy(r) # {}
    /\ \E r \in WorkerRuns : runs[r].outcome = "failed" /\ runs[r].stage = "fetch"

\* C29: on every successful run, synchronous or queued, the blur_score,
\* is_blurred and processed_at of the returned result are the values of the
\* update that this run had applied to the photo record.
C29_ReturnedIsWritten ==
    \A r \in RunIds :
        runs[r].outcome = "ok" =>
            \A a \in AppliedBy(r) :
                /\ applied[a].updates.blur_score = Some(runs[r].result[1].blur_score)
                /\ applied[a].updates.is_blurred = Some(runs[r].result[1].is_blurred)
                /\ applied[a].updates.processed_at = Some(runs[r].result[1].processed_at)

\* C30: every task that is enqueued and every analysis that reaches the
\* scoring carries a threshold that is a number in [0, 1].
C30_ThresholdInUnit ==
    /\ \A i \in 1..Len(enqueued) :
         /\ enqueued[i].opts.threshold # None
         /\ InUnit(enqueued[i].opts.threshold[1])
    /\ \A r \in RunIds :
         runs[r].trace # <<>> =>
             /\ runs[r].opts.threshold # None
             /\ InUnit(runs[r].opts.threshold[1])

====
